---------------------------- MODULE Spec2Model ----------------------------
(***************************************************************************)
(* A model of Code/Process3DFLAIR.py: the variance pipeline of the 3D-FLAIR *)
(* processing class (mask propagation, bias correction with its file       *)
(* reorganisation, intensity normalisation, voxel-wise variance) and the   *)
(* DICOM conversion with its renaming pass.                                *)
(*                                                                         *)
(* Strings are sequences of one-character strings, so that str(), zfill(), *)
(* startswith(), rsplit() and the `in` test are computed as Python         *)
(* computes them.  A path is a record [root, dir, name]: the subject whose *)
(* directory tree holds it, the directory below the subject's 3D-FLAIR     *)
(* root, and the file name.  The file system is the set of paths that      *)
(* exist; the voxel data of the normalised volumes is kept beside it.      *)
(* Voxel arithmetic is exact (a variance is a numerator over a common      *)
(* denominator); floating-point rounding is outside the model.             *)
(***************************************************************************)
EXTENDS Integers, Sequences, FiniteSets, TLC

VARIABLES
    subject_id,               \* self.subject_id
    registration_method,      \* self.registration_method
    time_points_to_consider,  \* self.time_points_to_consider
    out_file,                 \* the out_file argument of the run
    fs,                       \* the paths that exist
    data,                     \* voxel data of the normalised volumes on disk
    scans,                    \* what the normalisation writes for each time point
    pc,                       \* where the running call is
    idx,                      \* the loop index i of the running stage
    run,                      \* calls started so far
    error,                    \* the exception the call raised, or "none"
    stage_log,                \* stage calls and returns of the running pipeline
    mask_calls,               \* applyBETMask calls of the running extractBrain
    tool_log,                 \* external-tool invocations of the running call
    written,                  \* paths created or overwritten by the running call
    resumed,                  \* every artifact was present when the call began
    variance_map,             \* the array calcVariance saved last
    reorg_count,              \* reorganisation steps applied so far
    resolved,                 \* the paths last computed for one time point
    norm_steps,               \* library calls of the running intensityNormalisation
    total_num_time_points,    \* self.total_num_time_points
    dicom_folder,             \* the DICOM folder findDICOMFolder finds for a time point
    origin                    \* the time point a raw volume or sidecar was converted from

vars == <<subject_id, registration_method, time_points_to_consider, out_file,
          fs, data, scans, pc, idx, run, error, stage_log, mask_calls,
          tool_log, written, resumed, variance_map, reorg_count, resolved,
          norm_steps, total_num_time_points, dicom_folder, origin>>

-----------------------------------------------------------------------------
(* Bounds of the model *)

MaxRuns == 2
NumEarly == 3
MaxVols == 3
MaxReorgs == 2
MaxTotal == 3

-----------------------------------------------------------------------------
(* Python string operations on sequences of characters *)

Digit == <<"0", "1", "2", "3", "4", "5", "6", "7", "8", "9">>

RECURSIVE Str(_)
Str(n) == IF n < 10 THEN <<Digit[n + 1]>>
          ELSE Str(n \div 10) \o <<Digit[(n % 10) + 1]>>

RECURSIVE Zfill(_, _)
Zfill(s, width) == IF Len(s) >= width THEN s ELSE Zfill(<<"0">> \o s, width)

StartsWith(s, prefix) ==
    /\ Len(prefix) <= Len(s)
    /\ SubSeq(s, 1, Len(prefix)) = prefix

Contains(s, sub) ==
    \E p \in 1..(Len(s) + 1) :
        /\ p + Len(sub) - 1 <= Len(s)
        /\ SubSeq(s, p, p + Len(sub) - 1) = sub

Positions(s, c) == {p \in 1..Len(s) : s[p] = c}

\* s.rsplit(c, maxsplit)[0]
RSplitHead(s, c, maxsplit) ==
    LET P == Positions(s, c)
        k == IF Cardinality(P) < maxsplit THEN Cardinality(P) ELSE maxsplit
    IN  IF k = 0 THEN s
        ELSE LET cut == CHOOSE p \in P : Cardinality({q \in P : q >= p}) = k
             IN  SubSeq(s, 1, cut - 1)

\* s.rsplit(c, 1)[1]: an IndexError when c does not occur in s
RSplitTail(s, c) ==
    LET P == Positions(s, c)
    IN  IF P = {} THEN [ok |-> FALSE, val |-> <<>>]
        ELSE LET cut == CHOOSE p \in P : \A q \in P : q <= p
             IN  [ok |-> TRUE, val |-> SubSeq(s, cut + 1, Len(s))]


-----------------------------------------------------------------------------
(* Configuration: subjects, registration methods, time points *)

\* Subject identifiers: one of the usual form, one that holds the letters
\* "pve", and a third subject whose files may lie about.
SubjectIds == {<<"B", "_", "7">>, <<"p", "v", "e", "_", "2">>}
OtherSubject == <<"X", "_", "9">>

\* The three methods applyBETMask tests for, and a string that is none of them.
Methods == {"rigidfsl", "affinefsl", "nonlinearfsl", "rigid"}

TimePointSet == (1..NumEarly) \cup {10}

RECURSIVE SortedSeq(_)
SortedSeq(S) == IF S = {} THEN <<>>
                ELSE LET m == CHOOSE x \in S : \A y \in S : x <= y
                     IN  <<m>> \o SortedSeq(S \ {m})

\* The configured lists: chronological, as the constructor's documentation
\* asks, and one list that repeats a time point.
ConfiguredLists ==
    {SortedSeq(S) : S \in (SUBSET TimePointSet) \ {{}}} \cup {<<1, 1>>}

IsDistinct(list) ==
    \A a, b \in 1..Len(list) : a # b => list[a] # list[b]

-----------------------------------------------------------------------------
(* The folder tree of __init__ and the file names of each stage *)

subject_nifti_directory == "original_nifti/"
subject_brain_directory == "brain_nifti/"
subject_brain_mask_directory == "brain_nifti/masks/"
registered_directory == "registered_nifti/"
subject_FLIRT_mat_directory == "registered_nifti/FLIRT_mat/"
subject_bias_directory == "bias_nifti/"
subject_bias_fields_directory == "bias_nifti/fields/"
subject_normalised_directory == "normalised_nifti/"

Path(dir, name) == [root |-> subject_id, dir |-> dir, name |-> name]

Chars_D1 == <<"_", "D", "1">>
Chars_nii == <<".", "n", "i", "i">>
Chars_gz == <<".", "g", "z">>
Chars_flirt_mat == <<"_", "f", "l", "i", "r", "t", ".", "m", "a", "t">>
Chars_restore == <<"r", "e", "s", "t", "o", "r", "e">>
Chars_bias == <<"b", "i", "a", "s">>
Chars_mixeltype == <<"m", "i", "x", "e", "l", "t", "y", "p", "e">>
Chars_seg == <<"s", "e", "g">>
Chars_pve == <<"p", "v", "e">>
Chars_pveseg == <<"p", "v", "e", "s", "e", "g">>
Chars_standard_histogram ==
    <<"s", "t", "a", "n", "d", "a", "r", "d", "_", "h", "i", "s", "t", "o",
      "g", "r", "a", "m", ".", "n", "p", "y">>

\* '<subject_id>_{}_D1<ext>'.format(tp)
FormatName(sid, tp, ext) == sid \o <<"_">> \o tp \o Chars_D1 \o ext

\* str(t).zfill(2), the time-point string of applyBETMask
ZfillTimePoint(t) == Zfill(Str(t), 2)

\* str(0)+str(t), the time-point string of the later stages
CurrentImgStr(t) == Str(0) \o Str(t)

\* applyBETMask: the files of one call
extracted_brain(extracted_timepoint) ==
    Path(subject_brain_directory,
         FormatName(subject_id, ZfillTimePoint(extracted_timepoint),
                    Chars_nii \o Chars_gz))

brain_to_extract(to_extract_timepoint) ==
    Path(subject_nifti_directory,
         FormatName(subject_id, ZfillTimePoint(to_extract_timepoint),
                    Chars_nii \o Chars_gz))

mask(extracted_timepoint) ==
    Path(subject_brain_mask_directory,
         FormatName(subject_id, ZfillTimePoint(extracted_timepoint), Chars_nii))

\* A variant that registers every target into one scratch file
registered_scratch(to_extract_timepoint) ==
    Path(registered_directory, <<"t", "m", "p">> \o Chars_nii \o Chars_gz)

registered_whole_brain(to_extract_timepoint) ==
    Path(registered_directory,
         FormatName(subject_id, ZfillTimePoint(to_extract_timepoint),
                    Chars_nii \o Chars_gz))

affine_file_path(to_extract_timepoint) ==
    Path(subject_FLIRT_mat_directory,
         FormatName(subject_id, ZfillTimePoint(to_extract_timepoint),
                    Chars_flirt_mat))

\* A variant that masks the raw volume of the target
apply_mask_in_file_raw(to_extract_timepoint) ==
    brain_to_extract(to_extract_timepoint)

\* apply_mask_BET.inputs.in_file
apply_mask_in_file(to_extract_timepoint) ==
    registered_whole_brain(to_extract_timepoint)

apply_mask_out_file(to_extract_timepoint) ==
    Path(subject_brain_directory,
         FormatName(subject_id, ZfillTimePoint(to_extract_timepoint),
                    Chars_nii \o Chars_gz))

\* correctBiasField: the brain volume FAST is given
current_brain_loc(t) ==
    Path(subject_brain_directory,
         FormatName(subject_id, CurrentImgStr(t), Chars_nii \o Chars_gz))

\* FAST names its outputs after its input: <input stem>_<kind>.nii.gz, beside it
FASTOutputName(in_name, kind) ==
    RSplitHead(in_name, ".", 2) \o <<"_">> \o kind \o Chars_nii \o Chars_gz

FASTKinds == {Chars_restore, Chars_bias, Chars_mixeltype, Chars_seg,
              Chars_pve \o <<"_", "0">>, Chars_pveseg}

FASTOutputs(in_path) ==
    {[root |-> in_path.root, dir |-> in_path.dir,
      name |-> FASTOutputName(in_path.name, kind)] : kind \in FASTKinds}

\* intensityNormalisation: the bias-corrected volume read, the volume written
normalisation_image_path(t) ==
    Path(subject_bias_directory,
         FormatName(subject_id, CurrentImgStr(t),
                    <<"_">> \o Chars_restore \o Chars_nii \o Chars_gz))

normalised_file(t) ==
    Path(subject_normalised_directory,
         FormatName(subject_id, CurrentImgStr(t), Chars_nii \o Chars_gz))

standard_histogram == Path(subject_normalised_directory, Chars_standard_histogram)

\* calcVariance: the normalised volume read
variance_image_path(t) ==
    Path(subject_normalised_directory,
         FormatName(subject_id, CurrentImgStr(t), Chars_nii \o Chars_gz))

\* The bias field of time point t once the reorganisation has moved it
bias_field_file(t) ==
    Path(subject_bias_fields_directory,
         FASTOutputName(current_brain_loc(t).name, Chars_bias))

\* The bias-corrected volume of time point t once the reorganisation has moved it
bias_corrected_file(t) ==
    Path(subject_bias_directory,
         FASTOutputName(current_brain_loc(t).name, Chars_restore))

NoPath == [root |-> <<>>, dir |-> "", name |-> <<>>]

-----------------------------------------------------------------------------
(* Volumes and the variance of calcVariance *)

\* Voxel coordinates of an array of the given shape, counted from 0
Coords(shape) ==
    {<<i, j, k>> : i \in 0..(shape[1] - 1), j \in 0..(shape[2] - 1),
                   k \in 0..(shape[3] - 1)}

ConstVolume(shape, v) == [shape |-> shape, vox |-> [c \in Coords(shape) |-> v]]

\* images[n][i,j,k] is an IndexError outside the array
InBounds(image, c) == \A d \in 1..3 : c[d] < image.shape[d]

RECURSIVE SumSeq(_)
SumSeq(xs) == IF xs = <<>> THEN 0 ELSE Head(xs) + SumSeq(Tail(xs))

\* np.var(xs), default ddof: the mean of the squared deviations from the
\* mean.  With n = len(xs) and S = sum(xs) the deviations are (n*x - S)/n,
\* so the variance is sum((n*x - S)^2) / n^3: the numerator over NpVarDen(n).
NpVarDen(n) == n * n * n

\* A variant that forgets to subtract the mean
NpVarUncentred(xs) ==
    LET n == Len(xs)
    IN  SumSeq([m \in 1..n |-> (n * xs[m]) * (n * xs[m])])

NpVar(xs) ==
    LET n == Len(xs)
        S == SumSeq(xs)
    IN  SumSeq([m \in 1..n |-> (n * xs[m] - S) * (n * xs[m] - S)])

\* The voxel loop of calcVariance over the loaded images
VarianceLoop(images) ==
    LET shape == images[1].shape
        n == Len(images)
    IN  IF \E c \in Coords(shape) : \E m \in 1..n : ~InBounds(images[m], c)
        THEN [error |-> "IndexError", shape |-> shape,
              num |-> [c \in {} |-> 0], den |-> 1]
        ELSE [error |-> "none", shape |-> shape,
              num |-> [c \in Coords(shape) |->
                          NpVar([m \in 1..n |-> images[m].vox[c]])],
              den |-> NpVarDen(n)]

NoMap == [shape |-> <<0, 0, 0>>, num |-> [c \in {} |-> 0], den |-> 1]

-----------------------------------------------------------------------------
(* The file reorganisation of correctBiasField *)

\* What the loop does with one file name of the brain directory
Disposition(filename) ==
    IF ~StartsWith(filename, subject_id) THEN "skip"
    ELSE LET base_name == RSplitHead(filename, ".", 2)
             suffix == RSplitTail(base_name, "_")
         IN  IF ~suffix.ok THEN "IndexError"
             ELSE IF suffix.val = Chars_restore THEN "restore"
             ELSE IF suffix.val = Chars_bias THEN "bias"
             ELSE IF suffix.val = Chars_mixeltype THEN "remove"
             ELSE IF suffix.val = Chars_seg THEN "remove"
             ELSE IF Contains(base_name, Chars_pve) THEN "remove"
             ELSE "skip"

SourceFolder(files) ==
    {p \in files : p.root = subject_id /\ p.dir = subject_brain_directory}

\* A variant that sends the bias fields to the bias-corrected directory too
MoveTargetNoFields(p) == Path(subject_bias_directory, p.name)

MoveTarget(p) ==
    IF Disposition(p.name) = "restore"
    THEN Path(subject_bias_directory, p.name)
    ELSE Path(subject_bias_fields_directory, p.name)

\* The file system after the loop has handled the files of `handled`
ReorganiseFiles(files, handled) ==
    LET moved == {p \in handled : Disposition(p.name) \in {"restore", "bias"}}
        removed == {p \in handled : Disposition(p.name) = "remove"}
    IN  [files |-> (files \ (moved \cup removed)) \cup {MoveTarget(p) : p \in moved},
         written |-> {MoveTarget(p) : p \in moved}]

\* A variant that expects the outputs of FAST to be there: it raises when the
\* brain directory holds no bias-corrected volume to move
ReorganiseOutcomesExpectingFiles(files) ==
    LET source == SourceFolder(files)
    IN  IF \E p \in source : Disposition(p.name) = "restore"
        THEN {[error |-> "none"] @@ ReorganiseFiles(files, source)}
        ELSE {[error |-> "FileNotFoundError", files |-> files, written |-> {}]}

\* The loop ends with every file handled, or in an IndexError at a file
\* without "_" after any of the others were handled (listdir's order is free).
ReorganiseOutcomes(files) ==
    LET source == SourceFolder(files)
        bad == {p \in source : Disposition(p.name) = "IndexError"}
    IN  IF bad = {}
        THEN {[error |-> "none"] @@ ReorganiseFiles(files, source)}
        ELSE {[error |-> "IndexError"] @@ ReorganiseFiles(files, h) :
                 h \in SUBSET (source \ bad)}

-----------------------------------------------------------------------------
(* The external tools.  Each yields the file system after the call, the    *)
(* paths it wrote, the invocations it made and the exception it raised.    *)
(* `fails` says that the tool exits abnormally on this call.               *)

Invocation(tool, in_file, ref, mat, out) ==
    [tool |-> tool, in_file |-> in_file, ref |-> ref, mat |-> mat, out_file |-> out]

Raised(files, tools, kind) ==
    [files |-> files, written |-> {}, tools |-> tools, error |-> kind]

Completed(files, outputs, tools) ==
    [files |-> files \cup outputs, written |-> outputs, tools |-> tools,
     error |-> "none"]

\* The transform an affine registration keeps for the volume it wrote
AffineMatOf(out_path) ==
    [root |-> out_path.root, dir |-> subject_FLIRT_mat_directory,
     name |-> RSplitHead(out_path.name, ".", 2) \o Chars_flirt_mat]

\* rg.Registration(...).rigidFslFLIRT(...)
RigidFslFLIRT(reference_path, target_path, out_path, files, fails) ==
    LET call == Invocation("FLIRT", target_path, reference_path, NoPath, out_path)
    IN  IF ~({reference_path, target_path} \subseteq files)
        THEN Raised(files, <<>>, "ArtifactNotFound")
        ELSE IF fails THEN Raised(files, <<call>>, "ExternalToolFailure")
        ELSE Completed(files, {out_path}, <<call>>)

\* rg.Registration(...).affineFslFLIRT(...)
AffineFslFLIRT(reference_path, target_path, out_path, files, fails) ==
    LET call == Invocation("FLIRT", target_path, reference_path,
                           AffineMatOf(out_path), out_path)
    IN  IF ~({reference_path, target_path} \subseteq files)
        THEN Raised(files, <<>>, "ArtifactNotFound")
        ELSE IF fails THEN Raised(files, <<call>>, "ExternalToolFailure")
        ELSE Completed(files, {out_path, AffineMatOf(out_path)}, <<call>>)

\* rg.Registration(...).nonlinearFslFNIRT(affine_file_path)
NonlinearFslFNIRT(reference_path, target_path, out_path, affine, files, fails) ==
    LET call == Invocation("FNIRT", target_path, reference_path, affine, out_path)
    IN  IF affine \notin files
        THEN Raised(files, <<>>, "MissingPrerequisite")
        ELSE IF ~({reference_path, target_path} \subseteq files)
        THEN Raised(files, <<>>, "ArtifactNotFound")
        ELSE IF fails THEN Raised(files, <<call>>, "ExternalToolFailure")
        ELSE Completed(files, {out_path}, <<call>>)

\* fsl.ApplyMask().run()
ApplyMask(in_file, mask_file, out, files, fails) ==
    LET call == Invocation("ApplyMask", in_file, mask_file, NoPath, out)
    IN  IF ~({in_file, mask_file} \subseteq files)
        THEN Raised(files, <<>>, "ArtifactNotFound")
        ELSE IF fails THEN Raised(files, <<call>>, "ExternalToolFailure")
        ELSE Completed(files, {out}, <<call>>)

\* The inputs correctBiasField sets on fsl.FAST()
bias_iters == 5
img_type == 1
number_classes == 5

FASTInputs ==
    [bias_iters |-> bias_iters, img_type |-> img_type,
     number_classes |-> number_classes,
     output_biascorrected |-> TRUE, output_biasfield |-> TRUE]

\* fsl.FAST().run(): its outputs are written beside in_files
FAST(in_files, files, fails) ==
    LET call == Invocation("FAST", in_files, NoPath, NoPath, NoPath) @@ FASTInputs
    IN  IF in_files \notin files
        THEN Raised(files, <<>>, "ArtifactNotFound")
        ELSE IF fails THEN Raised(files, <<call>>, "ExternalToolFailure")
        ELSE Completed(files, FASTOutputs(in_files), <<call>>)

\* fsl.Reorient2Std().run(), in place
Reorient2Std(in_file) == Invocation("Reorient2Std", in_file, NoPath, NoPath, in_file)

-----------------------------------------------------------------------------
(* applyBETMask *)

\* The affine transform the non-linear registration is given
NonlinearAffineOfTemplate(extracted_timepoint, to_extract_timepoint) ==
    affine_file_path(extracted_timepoint)

NonlinearAffine(extracted_timepoint, to_extract_timepoint) ==
    affine_file_path(to_extract_timepoint)

\* The registration of the configured method; no branch for any other string
Register(extracted_timepoint, to_extract_timepoint, files, fails) ==
    LET ref == extracted_brain(extracted_timepoint)
        target == brain_to_extract(to_extract_timepoint)
        out == registered_whole_brain(to_extract_timepoint)
    IN  IF registration_method = "rigidfsl"
        THEN RigidFslFLIRT(ref, target, out, files, fails)
        ELSE IF registration_method = "affinefsl"
        THEN AffineFslFLIRT(ref, target, out, files, fails)
        ELSE IF registration_method = "nonlinearfsl"
        THEN NonlinearFslFNIRT(ref, target, out,
                 NonlinearAffine(extracted_timepoint, to_extract_timepoint),
                 files, fails)
        ELSE Raised(files, <<>>, "none")

\* One call: the registration, then the template's mask on the registered
\* volume.  `fail` names the tool that exits abnormally, if any.
ApplyBETMask(extracted_timepoint, to_extract_timepoint, files, fail) ==
    LET reg == Register(extracted_timepoint, to_extract_timepoint, files,
                        fail = "registration")
    IN  IF reg.error # "none" THEN reg
        ELSE LET bet == ApplyMask(apply_mask_in_file(to_extract_timepoint),
                                  mask(extracted_timepoint),
                                  apply_mask_out_file(to_extract_timepoint),
                                  reg.files, fail = "mask")
             IN  [files |-> bet.files,
                  written |-> reg.written \cup bet.written,
                  tools |-> reg.tools \o bet.tools,
                  error |-> bet.error]

-----------------------------------------------------------------------------
(* The stages of runVariancePipeline and the state they run in *)

StageOrderBiasLast ==
    <<"extractBrain", "intensityNormalisation", "correctBiasField", "calcVariance">>

StageOrder ==
    <<"extractBrain", "correctBiasField", "intensityNormalisation", "calcVariance">>

Resting == {"idle", "returned", "raised"}

Call(stage) == <<stage, "call">>
Return(stage) == <<stage, "return">>

\* A stage runs inside runVariancePipeline, or was called on its own
InPipeline == stage_log # <<>>

StagePosition(stage) == CHOOSE k \in 1..Len(StageOrder) : StageOrder[k] = stage

\* The running stage returns: the pipeline calls the next one, or returns itself
Leave(stage) ==
    IF ~InPipeline
    THEN /\ pc' = "returned"
         /\ stage_log' = stage_log
    ELSE LET k == StagePosition(stage)
         IN  IF k < Len(StageOrder)
             THEN /\ pc' = StageOrder[k + 1]
                  /\ stage_log' = stage_log \o <<Return(stage), Call(StageOrder[k + 1])>>
             ELSE /\ pc' = "returned"
                  /\ stage_log' = stage_log \o <<Return(stage)>>

\* The running stage raises: the exception leaves the pipeline
Raise(kind) ==
    /\ pc' = "raised"
    /\ error' = kind
    /\ stage_log' = stage_log

brain_template == time_points_to_consider[Len(time_points_to_consider)]

ExtractBrainTargetsAll == time_points_to_consider

\* range(len(self.time_points_to_consider)-1)
ExtractBrainTargets ==
    SubSeq(time_points_to_consider, 1, Len(time_points_to_consider) - 1)

\* Every artifact a run produces is there
AllArtifactsPresent(files) ==
    /\ \A k \in 1..(Len(time_points_to_consider) - 1) :
          {registered_whole_brain(time_points_to_consider[k]),
           apply_mask_out_file(time_points_to_consider[k])} \subseteq files
    /\ \A k \in 1..Len(time_points_to_consider) :
          {bias_corrected_file(time_points_to_consider[k]),
           bias_field_file(time_points_to_consider[k]),
           normalised_file(time_points_to_consider[k])} \subseteq files
    /\ {standard_histogram, out_file} \subseteq files

config == <<subject_id, registration_method, time_points_to_consider, out_file, scans>>

\* The state of the DICOM conversion: untouched by the variance pipeline
conversion == <<total_num_time_points, dicom_folder, origin>>

-----------------------------------------------------------------------------
(* Initial states *)

Shapes == {<<1, 1, 1>>, <<2, 1, 1>>, <<1, 1, 2>>}
Intensities == {10, 20}

Volumes ==
    UNION {{[shape |-> sh, vox |-> f] : f \in [Coords(sh) -> Intensities]} :
              sh \in Shapes}

\* What the normalisation of a run yields: volumes on the template's grid
PipelineScans ==
    {[t \in TimePointSet |-> ConstVolume(<<1, 1, 1>>, 10)],
     [t \in TimePointSet |-> ConstVolume(<<1, 1, 1>>, IF t % 2 = 1 THEN 10 ELSE 20)]}

VarianceMapName == <<"v", "a", "r", ".", "n", "i", "i", ".", "g", "z">>

\* Transforms an earlier affine run may have left in FLIRT_mat
InitialAffineSets == {{}, {10}, TimePointSet}

\* The registered volumes an earlier affine run of every time point left
\* beside its transforms
InitialRegistered(affine) == IF affine = TimePointSet THEN TimePointSet ELSE {}

\* The out_file a caller may pass: a path below the subject's root, or a path
\* below the root of another subject (the script's out_file is a literal path
\* that does not depend on the subject it selects)
OutFiles ==
    {[root |-> subject_id, dir |-> "variance_maps/", name |-> VarianceMapName],
     [root |-> OtherSubject, dir |-> "variance_maps/", name |-> VarianceMapName]}

\* The folder of DICOM images below original_dicom/<subject_id>_<tt>_D1
DefaultFolder(t) == <<"S">> \o Str(t)

\* The raw volumes on disk are the conversions of their time points
Converted ==
    /\ total_num_time_points = time_points_to_consider[Len(time_points_to_consider)]
    /\ dicom_folder = [t \in 1..total_num_time_points |-> DefaultFolder(t)]
    /\ origin = [p \in {brain_to_extract(t) : t \in 1..total_num_time_points} \cap fs |->
                    CHOOSE t \in 1..total_num_time_points : brain_to_extract(t) = p]

InitCommon ==
    /\ pc = "idle"
    /\ idx = 1
    /\ run = 0
    /\ error = "none"
    /\ stage_log = <<>>
    /\ mask_calls = <<>>
    /\ tool_log = <<>>
    /\ written = {}
    /\ resumed = FALSE
    /\ variance_map = NoMap
    /\ reorg_count = 0
    /\ resolved = {}
    /\ norm_steps = <<>>

\* A subject whose scans are converted and whose template brain is extracted
Init ==
    /\ subject_id \in SubjectIds
    /\ registration_method \in Methods
    /\ time_points_to_consider \in ConfiguredLists
    /\ out_file \in OutFiles
    /\ scans \in PipelineScans
    /\ \E affine \in InitialAffineSets :
          fs = {brain_to_extract(time_points_to_consider[k]) :
                    k \in 1..Len(time_points_to_consider)}
               \cup {extracted_brain(brain_template), mask(brain_template)}
               \cup {affine_file_path(t) : t \in affine}
               \cup {registered_whole_brain(t) : t \in InitialRegistered(affine)}
    /\ data = [p \in {} |-> NoMap]
    /\ Converted
    /\ InitCommon

-----------------------------------------------------------------------------
(* runVariancePipeline and its stages *)

\* A call begins: the bookkeeping of the call before is dropped
Begin ==
    /\ pc \in Resting
    /\ run < MaxRuns
    /\ run' = run + 1
    /\ idx' = 1
    /\ error' = "none"
    /\ mask_calls' = <<>>
    /\ tool_log' = <<>>
    /\ written' = {}
    /\ norm_steps' = <<>>
    /\ resumed' = AllArtifactsPresent(fs)

\* runVariancePipeline(out_file) is called: its first stage starts
RunVariancePipeline ==
    /\ Begin
    /\ pc' = StageOrder[1]
    /\ stage_log' = <<Call(StageOrder[1])>>
    /\ UNCHANGED <<config, conversion, fs, data, variance_map, reorg_count, resolved>>

\* extractBrain: one applyBETMask call of the loop
ExtractBrainStep ==
    /\ pc = "extractBrain"
    /\ idx <= Len(ExtractBrainTargets)
    /\ \E fail \in {"none", "registration", "mask"} :
          LET r == ApplyBETMask(brain_template, ExtractBrainTargets[idx], fs, fail)
          IN  /\ fs' = r.files
              /\ written' = written \cup r.written
              /\ tool_log' = tool_log \o r.tools
              /\ mask_calls' = Append(mask_calls,
                     [extracted_timepoint |-> brain_template,
                      to_extract_timepoint |-> ExtractBrainTargets[idx]])
              /\ IF r.error = "none"
                 THEN /\ idx' = idx + 1
                      /\ UNCHANGED <<pc, error, stage_log>>
                 ELSE /\ Raise(r.error)
                      /\ idx' = idx
    /\ UNCHANGED <<config, conversion, norm_steps, data, run, resumed, variance_map, reorg_count, resolved>>

\* extractBrain: the loop is over
ExtractBrainReturn ==
    /\ pc = "extractBrain"
    /\ idx > Len(ExtractBrainTargets)
    /\ Leave("extractBrain")
    /\ idx' = 1
    /\ UNCHANGED <<config, conversion, norm_steps, fs, data, run, error, mask_calls, tool_log, written,
                   resumed, variance_map, reorg_count, resolved>>

\* correctBiasField: FAST on the brain volume of one time point
CorrectBiasFieldStep ==
    /\ pc = "correctBiasField"
    /\ idx <= Len(time_points_to_consider)
    /\ \E fails \in BOOLEAN :
          LET r == FAST(current_brain_loc(time_points_to_consider[idx]), fs, fails)
          IN  /\ fs' = r.files
              /\ written' = written \cup r.written
              /\ tool_log' = tool_log \o r.tools
              /\ IF r.error = "none"
                 THEN /\ idx' = idx + 1
                      /\ UNCHANGED <<pc, error, stage_log>>
                 ELSE /\ Raise(r.error)
                      /\ idx' = idx
    /\ UNCHANGED <<config, conversion, norm_steps, data, run, mask_calls, resumed, variance_map,
                   reorg_count, resolved>>

\* correctBiasField: the file tree is reorganised and the method returns
CorrectBiasFieldReorganise ==
    /\ pc = "correctBiasField"
    /\ idx > Len(time_points_to_consider)
    /\ \E r \in ReorganiseOutcomes(fs) :
          /\ fs' = r.files
          /\ written' = written \cup r.written
          /\ IF r.error = "none"
             THEN /\ Leave("correctBiasField")
                  /\ error' = error
             ELSE Raise(r.error)
    /\ idx' = 1
    /\ UNCHANGED <<config, conversion, norm_steps, data, run, mask_calls, tool_log, resumed,
                   variance_map, reorg_count, resolved>>

\* The time point whose normalised volume is at path p
TimePointOf(p) ==
    CHOOSE t \in {time_points_to_consider[k] : k \in 1..Len(time_points_to_consider)} :
        normalised_file(t) = p

\* A variant that looks for the first image only before it starts
MissingImagesOfFirst(image_paths, files) ==
    {k \in {1} : image_paths[k] \notin files}

\* The images nib.load cannot open: the list of images is loaded whole
\* before anything else is done with it
MissingImages(image_paths, files) ==
    {k \in 1..Len(image_paths) : image_paths[k] \notin files}

NormStep(op, index, inputs, out) ==
    [op |-> op, index |-> index, inputs |-> inputs, out |-> out]

\* A variant that reorients the volumes before it saves them
NormalisationStepsReorientFirst(image_paths, out_paths, reoriented) ==
    LET n == Len(image_paths)
    IN  <<NormStep("fit", 0, image_paths, NoPath)>>
        \o [i \in 1..n |-> NormStep("apply", i, <<image_paths[i]>>, NoPath)]
        \o <<NormStep("save_standard_histogram", 0, <<>>, standard_histogram)>>
        \o [i \in 1..reoriented |-> NormStep("reorient", i, <<out_paths[i]>>, out_paths[i])]
        \o [i \in 1..n |-> NormStep("save", i, <<>>, out_paths[i])]

\* The library calls of intensityNormalisation in the order of its statements:
\* one fit over all the loaded images, the model applied to each, the standard
\* histogram saved, each normalised volume saved, then the reorientations
\* (`reoriented` of them are started)
NormalisationSteps(image_paths, out_paths, reoriented) ==
    LET n == Len(image_paths)
    IN  <<NormStep("fit", 0, image_paths, NoPath)>>
        \o [i \in 1..n |-> NormStep("apply", i, <<image_paths[i]>>, NoPath)]
        \o <<NormStep("save_standard_histogram", 0, <<>>, standard_histogram)>>
        \o [i \in 1..n |-> NormStep("save", i, <<>>, out_paths[i])]
        \o [i \in 1..reoriented |-> NormStep("reorient", i, <<out_paths[i]>>, out_paths[i])]

\* intensityNormalisation(useBiasCorrected = True).  `failAt` is the
\* reorientation that exits abnormally, 0 for none.
IntensityNormalisation ==
    /\ pc = "intensityNormalisation"
    /\ LET n == Len(time_points_to_consider)
           image_paths == [k \in 1..n |-> normalisation_image_path(time_points_to_consider[k])]
           out_paths == [k \in 1..n |-> normalised_file(time_points_to_consider[k])]
           saved == {out_paths[k] : k \in 1..n}
       IN  IF MissingImages(image_paths, fs) # {}
           THEN /\ Raise("ArtifactNotFound")
                /\ UNCHANGED <<fs, data, written, tool_log, norm_steps>>
           ELSE /\ fs' = fs \cup {standard_histogram} \cup saved
                /\ written' = written \cup {standard_histogram} \cup saved
                /\ data' = [p \in (DOMAIN data) \cup saved |->
                               IF p \in saved THEN scans[TimePointOf(p)] ELSE data[p]]
                /\ \E failAt \in 0..n :
                      IF failAt = 0
                      THEN /\ tool_log' = tool_log \o
                                 [k \in 1..n |-> Reorient2Std(normalised_file(time_points_to_consider[k]))]
                           /\ norm_steps' = NormalisationSteps(image_paths, out_paths, n)
                           /\ Leave("intensityNormalisation")
                           /\ error' = error
                      ELSE /\ tool_log' = tool_log \o
                                 [k \in 1..failAt |-> Reorient2Std(normalised_file(time_points_to_consider[k]))]
                           /\ norm_steps' = NormalisationSteps(image_paths, out_paths, failAt)
                           /\ Raise("ExternalToolFailure")
    /\ UNCHANGED <<config, conversion, idx, run, mask_calls, resumed, variance_map,
                   reorg_count, resolved>>

\* calcVariance(out_file)
CalcVariance ==
    /\ pc = "calcVariance"
    /\ LET n == Len(time_points_to_consider)
           image_paths == [k \in 1..n |-> variance_image_path(time_points_to_consider[k])]
       IN  IF \E k \in 1..n : image_paths[k] \notin fs
           THEN /\ Raise("ArtifactNotFound")
                /\ UNCHANGED <<fs, written, variance_map>>
           ELSE LET images == [k \in 1..n |-> data[image_paths[k]]]
                    r == VarianceLoop(images)
                IN  IF r.error # "none"
                    THEN /\ Raise(r.error)
                         /\ UNCHANGED <<fs, written, variance_map>>
                    ELSE /\ fs' = fs \cup {out_file}
                         /\ written' = written \cup {out_file}
                         /\ variance_map' = [shape |-> r.shape, num |-> r.num, den |-> r.den]
                         /\ Leave("calcVariance")
                         /\ error' = error
    /\ UNCHANGED <<config, conversion, norm_steps, data, idx, run, mask_calls, tool_log, resumed,
                   reorg_count, resolved>>

Next ==
    \/ RunVariancePipeline
    \/ ExtractBrainStep
    \/ ExtractBrainReturn
    \/ CorrectBiasFieldStep
    \/ CorrectBiasFieldReorganise
    \/ IntensityNormalisation
    \/ CalcVariance

Spec == Init /\ [][Next]_vars

-----------------------------------------------------------------------------
(* calcVariance called on its own, as the script at the end of the file does *)

DefaultScans == [t \in TimePointSet |-> ConstVolume(<<1, 1, 1>>, 10)]

InitVariance ==
    /\ subject_id = <<"B", "_", "7">>
    /\ registration_method = "rigidfsl"
    /\ \E n \in 1..MaxVols : time_points_to_consider = [k \in 1..n |-> k]
    /\ out_file = [root |-> subject_id, dir |-> "variance_maps/", name |-> VarianceMapName]
    /\ scans = DefaultScans
    /\ fs = {normalised_file(time_points_to_consider[k]) :
                k \in 1..Len(time_points_to_consider)}
    /\ data \in [fs -> Volumes]
    /\ Converted
    /\ InitCommon

CallCalcVariance ==
    /\ Begin
    /\ pc' = "calcVariance"
    /\ stage_log' = <<>>
    /\ UNCHANGED <<config, conversion, fs, data, variance_map, reorg_count, resolved>>

NextVariance ==
    \/ CallCalcVariance
    \/ CalcVariance

SpecVariance == InitVariance /\ [][NextVariance]_vars

-----------------------------------------------------------------------------
(* intensityNormalisation and calcVariance called on their own, on a       *)
(* subject directory that holds some of their inputs and outputs           *)

InitStages ==
    /\ subject_id = <<"B", "_", "7">>
    /\ registration_method = "rigidfsl"
    /\ \E n \in 1..MaxVols : time_points_to_consider = [k \in 1..n |-> k]
    /\ out_file = [root |-> subject_id, dir |-> "variance_maps/", name |-> VarianceMapName]
    /\ scans \in PipelineScans
    /\ LET T == 1..Len(time_points_to_consider)
       IN  \E bias \in SUBSET T, normalised \in SUBSET T,
              others \in SUBSET {standard_histogram, out_file} :
              /\ fs = {normalisation_image_path(t) : t \in bias}
                       \cup {normalised_file(t) : t \in normalised} \cup others
              /\ data = [p \in {normalised_file(t) : t \in normalised} |->
                            ConstVolume(<<1, 1, 1>>, 10)]
    /\ Converted
    /\ InitCommon

CallIntensityNormalisation ==
    /\ Begin
    /\ pc' = "intensityNormalisation"
    /\ stage_log' = <<>>
    /\ UNCHANGED <<config, conversion, fs, data, variance_map, reorg_count, resolved>>

NextStages ==
    \/ CallIntensityNormalisation
    \/ IntensityNormalisation
    \/ CallCalcVariance
    \/ CalcVariance

SpecStages == InitStages /\ [][NextStages]_vars

-----------------------------------------------------------------------------
(* The reorganisation of the file tree, applied to a brain directory *)

\* Files a brain directory may hold: the outputs of FAST for time point 1,
\* the brain volume itself, the bias-corrected volume of time point 2, and a
\* bias-corrected volume of another subject.
BrainDirectoryFiles ==
    FASTOutputs(current_brain_loc(1))
    \cup {current_brain_loc(1),
          Path(subject_brain_directory,
               FASTOutputName(current_brain_loc(2).name, Chars_restore)),
          Path(subject_brain_directory,
               FASTOutputName(FormatName(OtherSubject, CurrentImgStr(1),
                                         Chars_nii \o Chars_gz), Chars_restore))}

\* Files an earlier run may have left in the bias-corrected directory
BiasDirectoryFiles == {bias_corrected_file(1)}

\* Masks the masks subdirectory may hold
MaskDirectoryFiles == {mask(1)}

InitReorganise ==
    /\ subject_id \in SubjectIds
    /\ registration_method = "rigidfsl"
    /\ time_points_to_consider = <<1, 2>>
    /\ out_file = [root |-> subject_id, dir |-> "variance_maps/", name |-> VarianceMapName]
    /\ scans = DefaultScans
    /\ \E brain \in SUBSET BrainDirectoryFiles, bias \in SUBSET BiasDirectoryFiles,
          masks \in SUBSET MaskDirectoryFiles :
          fs = brain \cup bias \cup masks
    /\ data = [p \in {} |-> NoMap]
    /\ Converted
    /\ InitCommon

\* Lines 411-436 of correctBiasField, run on the directory as it is
ReorganiseFileTree ==
    /\ pc = "idle"
    /\ reorg_count < MaxReorgs
    /\ \E r \in ReorganiseOutcomes(fs) :
          /\ fs' = r.files
          /\ written' = r.written
          /\ error' = r.error
    /\ reorg_count' = reorg_count + 1
    /\ UNCHANGED <<config, conversion, norm_steps, data, pc, idx, run, stage_log, mask_calls, tool_log,
                   resumed, variance_map, resolved>>

SpecReorganise == InitReorganise /\ [][ReorganiseFileTree]_vars

-----------------------------------------------------------------------------
(* The paths each stage computes for one time point *)

Use(stage, artifact, role, t, path) ==
    [stage |-> stage, artifact |-> artifact, role |-> role, t |-> t, path |-> path]

StagePaths(t) ==
    {Use("applyBETMask", "raw", "read", t, brain_to_extract(t)),
     Use("applyBETMask", "registered", "write", t, registered_whole_brain(t)),
     Use("applyBETMask", "transform", "read", t, affine_file_path(t)),
     Use("applyBETMask", "brain", "write", t, apply_mask_out_file(t)),
     Use("applyBETMask", "brain", "read", t, extracted_brain(t)),
     Use("applyBETMask", "mask", "read", t, mask(t)),
     Use("correctBiasField", "brain", "read", t, current_brain_loc(t)),
     Use("correctBiasField", "bias-corrected", "write", t, bias_corrected_file(t)),
     Use("correctBiasField", "bias-field", "write", t, bias_field_file(t)),
     Use("intensityNormalisation", "bias-corrected", "read", t, normalisation_image_path(t)),
     Use("intensityNormalisation", "normalised", "write", t, normalised_file(t)),
     Use("calcVariance", "normalised", "read", t, variance_image_path(t))}

InitPaths ==
    /\ subject_id \in SubjectIds
    /\ registration_method = "rigidfsl"
    /\ time_points_to_consider = <<1, 2>>
    /\ out_file = [root |-> subject_id, dir |-> "variance_maps/", name |-> VarianceMapName]
    /\ scans = DefaultScans
    /\ fs = {}
    /\ data = [p \in {} |-> NoMap]
    /\ Converted
    /\ InitCommon

\* The stages compute their paths for time point t
ResolvePaths ==
    /\ \E t \in 1..99 : resolved' = StagePaths(t)
    /\ UNCHANGED <<config, conversion, norm_steps, fs, data, pc, idx, run, error, stage_log, mask_calls,
                   tool_log, written, resumed, variance_map, reorg_count>>

SpecPaths == InitPaths /\ [][ResolvePaths]_vars

-----------------------------------------------------------------------------
(* convertDICOMtoNIFTI and renameNIFTIFiles.  The file system is the domain *)
(* of `origin`, which gives for a raw volume or a sidecar the time point    *)
(* whose DICOM folder it was converted from, and 0 for a directory.         *)

\* The characters of the file names, in the order of their code points
CharOrder ==
    <<".", "0", "1", "2", "3", "4", "5", "6", "7", "8", "9",
      "A", "B", "D", "S", "X", "_",
      "a", "e", "f", "g", "i", "j", "n", "o", "p", "s", "v", "z">>

Ord(c) == CHOOSE i \in 1..Len(CharOrder) : CharOrder[i] = c

\* a < b as Python compares strings
RECURSIVE LexLess(_, _)
LexLess(a, b) ==
    IF b = <<>> THEN FALSE
    ELSE IF a = <<>> THEN TRUE
    ELSE IF Head(a) # Head(b) THEN Ord(Head(a)) < Ord(Head(b))
    ELSE LexLess(Tail(a), Tail(b))

\* list.sort() of a list of distinct names
RECURSIVE SortNames(_)
SortNames(S) ==
    IF S = {} THEN <<>>
    ELSE LET m == CHOOSE x \in S : \A y \in S \ {x} : LexLess(x, y)
         IN  <<m>> \o SortNames(S \ {m})

EndsWith(s, suffix) ==
    /\ Len(suffix) <= Len(s)
    /\ SubSeq(s, Len(s) - Len(suffix) + 1, Len(s)) = suffix

Chars_json == <<".", "j", "s", "o", "n">>
Chars_json_info == <<"j", "s", "o", "n", "_", "i", "n", "f", "o">>

json_directory == "original_nifti/json_info/"

\* Names of the folders that hold the DICOM images of a time point
FolderNames == {<<"S", "1">>, <<"S", "2">>, <<"S", "3">>, <<"A">>, <<"s">>}

\* nifti_file_format.format(str(0)+str(i+1)), the file convertDICOMtoNIFTI
\* looks for and reorients
converted_nifti(t) ==
    Path(subject_nifti_directory,
         FormatName(subject_id, CurrentImgStr(t), Chars_nii \o Chars_gz))

\* The names renameNIFTIFiles gives the files at position `index`
new_nifti_name(index) ==
    FormatName(subject_id, Zfill(Str(index), 2), Chars_nii \o Chars_gz)

new_json_name(index) == FormatName(subject_id, Zfill(Str(index), 2), Chars_json)

\* dcm2niix -o original_nifti/ -z y -f %f <folder>: a volume and a sidecar
\* named after the folder
Dcm2niixOutputs(folder) ==
    {Path(subject_nifti_directory, folder \o Chars_nii \o Chars_gz),
     Path(subject_nifti_directory, folder \o Chars_json)}

\* os.listdir of a directory below the subject's root (files only)
ListDir(org, dir) == {p.name : p \in {q \in DOMAIN org : q.dir = dir}}

Without(org, paths) == [p \in (DOMAIN org) \ paths |-> org[p]]

\* os.rename(src, dst) of a file: a file at dst is replaced
RenameFile(org, src, dst) ==
    IF src = dst THEN org
    ELSE [p \in ((DOMAIN org) \ {src}) \cup {dst} |->
             IF p = dst THEN org[src] ELSE org[p]]

\* shutil.move of every .json file of original_nifti/ into json_info/
MoveSidecars(org) ==
    LET moved == {p \in DOMAIN org : /\ p.dir = subject_nifti_directory
                                       /\ EndsWith(p.name, Chars_json)}
        rest == Without(org, moved)
    IN  [p \in (DOMAIN rest) \cup {Path(json_directory, q.name) : q \in moved} |->
            IF \E q \in moved : Path(json_directory, q.name) = p
            THEN org[CHOOSE q \in moved : Path(json_directory, q.name) = p]
            ELSE rest[p]]

\* The rename loop from position `index` on.  The directory json_info is an
\* entry of the listing of original_nifti/: renamed, it takes the sidecars
\* with it, and the rename of the sidecar that follows finds no file.
RECURSIVE RenameLoop(_, _, _, _)
RenameLoop(index, nifti_file_list, json_file_list, org) ==
    IF index > Len(nifti_file_list) \/ index > Len(json_file_list)
    THEN [origin |-> org, error |-> "none"]
    ELSE LET dst == Path(subject_nifti_directory, new_nifti_name(index))
             src == Path(subject_nifti_directory, nifti_file_list[index])
             jsrc == Path(json_directory, json_file_list[index])
             jdst == Path(json_directory, new_json_name(index))
         IN  IF nifti_file_list[index] = Chars_json_info
             THEN IF dst \in DOMAIN org
                  THEN [origin |-> org, error |-> "NotADirectoryError"]
                  ELSE [origin |-> [p \in {q \in DOMAIN org : q.dir # json_directory}
                                           \cup {dst} |->
                                       IF p = dst THEN 0 ELSE org[p]],
                        error |-> "FileNotFoundError"]
             ELSE IF src \notin DOMAIN org
             THEN [origin |-> org, error |-> "FileNotFoundError"]
             ELSE LET org1 == RenameFile(org, src, dst)
                  IN  IF jsrc \notin DOMAIN org1
                      THEN [origin |-> org1, error |-> "FileNotFoundError"]
                      ELSE RenameLoop(index + 1, nifti_file_list, json_file_list,
                                      RenameFile(org1, jsrc, jdst))

\* renameNIFTIFiles(): the sidecars moved, both listings sorted, the pairs renamed
RenameNIFTIFilesOutcome(org) ==
    LET org1 == MoveSidecars(org)
        nifti_file_list == SortNames(ListDir(org1, subject_nifti_directory)
                                         \cup {Chars_json_info})
        json_file_list == SortNames(ListDir(org1, json_directory))
    IN  RenameLoop(1, nifti_file_list, json_file_list, org1)

InitConvert ==
    /\ subject_id \in SubjectIds
    /\ registration_method = "rigidfsl"
    /\ time_points_to_consider = <<1>>
    /\ out_file = [root |-> subject_id, dir |-> "variance_maps/", name |-> VarianceMapName]
    /\ scans = DefaultScans
    /\ fs = {}
    /\ data = [p \in {} |-> NoMap]
    /\ total_num_time_points \in 1..MaxTotal
    /\ dicom_folder \in {f \in [1..MaxTotal -> FolderNames] :
                             \A a, b \in 1..MaxTotal : a # b => f[a] # f[b]}
    /\ origin = [p \in {} |-> 0]
    /\ InitCommon

\* convertDICOMtoNIFTI() is called, by the object of this run: a later run
\* may be of a subject with more scans
ConvertDICOMtoNIFTI ==
    /\ Begin
    /\ pc \in {"idle", "returned"}
    /\ total_num_time_points' \in total_num_time_points..MaxTotal
    /\ pc' = "convertDICOMtoNIFTI"
    /\ stage_log' = <<>>
    /\ UNCHANGED <<config, fs, data, variance_map, reorg_count, resolved,
                   dicom_folder, origin>>

\* One pass of the conversion loop: time point idx is converted unless its
\* raw volume is there
ConvertStep ==
    /\ pc = "convertDICOMtoNIFTI"
    /\ idx <= total_num_time_points
    /\ IF converted_nifti(idx) \in DOMAIN origin /\ origin[converted_nifti(idx)] # 0
       THEN UNCHANGED <<fs, origin, tool_log, written>>
       ELSE LET outputs == Dcm2niixOutputs(dicom_folder[idx])
            IN  /\ origin' = [p \in (DOMAIN origin) \cup outputs |->
                                 IF p \in outputs THEN idx ELSE origin[p]]
                /\ fs' = fs \cup outputs
                /\ written' = written \cup outputs
                /\ tool_log' = Append(tool_log,
                       Invocation("dcm2niix",
                                  [root |-> subject_id, dir |-> "original_dicom/",
                                   name |-> dicom_folder[idx]],
                                  NoPath, NoPath,
                                  Path(subject_nifti_directory, dicom_folder[idx])))
    /\ idx' = idx + 1
    /\ UNCHANGED <<config, norm_steps, total_num_time_points, dicom_folder, data,
                   pc, run, error, stage_log, mask_calls, resumed, variance_map,
                   reorg_count, resolved>>

\* The conversion loop is over: renameNIFTIFiles()
RenameNIFTIFiles ==
    /\ pc = "convertDICOMtoNIFTI"
    /\ idx > total_num_time_points
    /\ LET r == RenameNIFTIFilesOutcome(origin)
       IN  /\ origin' = r.origin
           /\ fs' = DOMAIN r.origin
           /\ IF r.error = "none"
              THEN /\ pc' = "reorient"
                   /\ UNCHANGED <<error, stage_log>>
              ELSE Raise(r.error)
    /\ idx' = 1
    /\ UNCHANGED <<config, norm_steps, total_num_time_points, dicom_folder, data,
                   run, mask_calls, tool_log, written, resumed, variance_map,
                   reorg_count, resolved>>

\* One pass of the reorientation loop
ReorientStep ==
    /\ pc = "reorient"
    /\ idx <= total_num_time_points
    /\ IF converted_nifti(idx) \in DOMAIN origin
       THEN /\ tool_log' = Append(tool_log, Reorient2Std(converted_nifti(idx)))
            /\ idx' = idx + 1
            /\ UNCHANGED <<pc, error, stage_log>>
       ELSE /\ Raise("ArtifactNotFound")
            /\ UNCHANGED <<tool_log, idx>>
    /\ UNCHANGED <<config, conversion, norm_steps, fs, data, run, mask_calls,
                   written, resumed, variance_map, reorg_count, resolved>>

ConvertReturn ==
    /\ pc = "reorient"
    /\ idx > total_num_time_points
    /\ pc' = "returned"
    /\ UNCHANGED <<config, conversion, norm_steps, fs, data, idx, run, error,
                   stage_log, mask_calls, tool_log, written, resumed, variance_map,
                   reorg_count, resolved>>

NextConvert ==
    \/ ConvertDICOMtoNIFTI
    \/ ConvertStep
    \/ RenameNIFTIFiles
    \/ ReorientStep
    \/ ConvertReturn

SpecConvert == InitConvert /\ [][NextConvert]_vars

-----------------------------------------------------------------------------
(* The iterations of the mask propagation run as independent calls, in any *)
(* order: applyBETMask for each non-template time point, no tool failing   *)

TargetSet == {ExtractBrainTargets[k] : k \in 1..Len(ExtractBrainTargets)}

Propagated == {mask_calls[j].to_extract_timepoint : j \in 1..Len(mask_calls)}

InitPropagate ==
    /\ subject_id \in SubjectIds
    /\ registration_method \in Methods
    /\ time_points_to_consider \in {l \in ConfiguredLists : IsDistinct(l)}
    /\ out_file = [root |-> subject_id, dir |-> "variance_maps/", name |-> VarianceMapName]
    /\ scans = DefaultScans
    /\ \E affine \in InitialAffineSets :
          fs = {brain_to_extract(time_points_to_consider[k]) :
                    k \in 1..Len(time_points_to_consider)}
               \cup {extracted_brain(brain_template), mask(brain_template)}
               \cup {affine_file_path(t) : t \in affine}
               \cup {registered_whole_brain(t) : t \in InitialRegistered(affine)}
    /\ data = [p \in {} |-> NoMap]
    /\ Converted
    /\ InitCommon

\* applyBETMask(brain_template, t) for a target not yet propagated
PropagateMask ==
    /\ \E t \in TargetSet \ Propagated :
          LET r == ApplyBETMask(brain_template, t, fs, "none")
          IN  /\ fs' = r.files
              /\ written' = written \cup r.written
              /\ tool_log' = tool_log \o r.tools
              /\ error' = r.error
              /\ mask_calls' = Append(mask_calls,
                     [extracted_timepoint |-> brain_template,
                      to_extract_timepoint |-> t])
    /\ UNCHANGED <<config, conversion, norm_steps, data, pc, idx, run, stage_log,
                   resumed, variance_map, reorg_count, resolved>>

SpecPropagate == InitPropagate /\ [][PropagateMask]_vars

-----------------------------------------------------------------------------
(* Properties of the pipeline's sequencing *)

IsPrefix(s, t) == Len(s) <= Len(t) /\ SubSeq(t, 1, Len(s)) = s

Occurs(e, log) == \E k \in 1..Len(log) : log[k] = e

CanonicalLog ==
    <<Call("extractBrain"), Return("extractBrain"),
      Call("correctBiasField"), Return("correctBiasField"),
      Call("intensityNormalisation"), Return("intensityNormalisation"),
      Call("calcVariance"), Return("calcVariance")>>

\* C1: in a run of runVariancePipeline the stages are called in the order
\* extractBrain, correctBiasField, intensityNormalisation, calcVariance, each
\* call following the return of the stage before; a stage that is running is
\* the one called last; and a run that returns has called and left each of the
\* four exactly once.  (A stage that raises ends the run: its log is then a
\* prefix of the same order.)
C1_StagesOnceInOrder ==
    InPipeline =>
        /\ IsPrefix(stage_log, CanonicalLog)
        /\ pc \notin Resting => stage_log[Len(stage_log)] = Call(pc)
        /\ pc = "raised" => stage_log[Len(stage_log)][2] = "call"
        /\ pc = "returned" => stage_log = CanonicalLog

C1_Witness ==
    /\ pc = "returned"
    /\ stage_log = CanonicalLog
    /\ Len(time_points_to_consider) = 3

ExtractBrainReturned == Occurs(Return("extractBrain"), stage_log)

\* C2: every applyBETMask call of extractBrain has the last configured time
\* point as extracted_timepoint, the k-th call has the k-th configured time
\* point as its target, no call is made for the last position, and when the
\* time points are distinct no call has the template as its target; when
\* extractBrain returns it has made exactly n-1 calls.
C2_TemplateNeverTarget ==
    LET n == Len(time_points_to_consider)
    IN  /\ Len(mask_calls) <= n - 1
        /\ \A k \in 1..Len(mask_calls) :
              /\ mask_calls[k].extracted_timepoint = time_points_to_consider[n]
              /\ mask_calls[k].to_extract_timepoint = time_points_to_consider[k]
              /\ IsDistinct(time_points_to_consider) =>
                    mask_calls[k].to_extract_timepoint # time_points_to_consider[n]
        /\ ExtractBrainReturned => Len(mask_calls) = n - 1

C2_Witness ==
    /\ ExtractBrainReturned
    /\ Len(time_points_to_consider) = 3
    /\ Len(mask_calls) = 2

\* C3 (as claimed): a run that starts with every artifact present invokes no
\* external tool.
C3_RerunInvokesNoTool ==
    (run >= 2 /\ resumed) => tool_log = <<>>

\* C4: a mask-propagation call under the non-linear method whose target has no
\* affine transform raises MissingPrerequisite, writes no file and runs no tool.
C4_MissingAffineRaises ==
    [][(/\ pc = "extractBrain"
        /\ idx <= Len(ExtractBrainTargets)
        /\ registration_method = "nonlinearfsl"
        /\ affine_file_path(ExtractBrainTargets[idx]) \notin fs)
       => (/\ pc' = "raised"
           /\ error' = "MissingPrerequisite"
           /\ fs' = fs
           /\ written' = written
           /\ tool_log' = tool_log)]_vars

C4_Witness ==
    /\ pc = "raised"
    /\ error = "MissingPrerequisite"
    /\ registration_method = "nonlinearfsl"
    /\ affine_file_path(ExtractBrainTargets[idx]) \notin fs
    /\ affine_file_path(brain_template) \in fs
    /\ registered_whole_brain(ExtractBrainTargets[idx]) \notin fs
    /\ apply_mask_out_file(ExtractBrainTargets[idx]) \notin fs

-----------------------------------------------------------------------------
(* Properties of the variance map *)

LoadedImages ==
    [k \in 1..Len(time_points_to_consider) |->
        data[variance_image_path(time_points_to_consider[k])]]

SameShapes(images) == \A a, b \in 1..Len(images) : images[a].shape = images[b].shape

CalcVarianceEnded == run >= 1 /\ pc \in {"returned", "raised"}

\* C5: when calcVariance returns for volumes of one shape, the saved map has
\* that shape and its value at each voxel is the population variance of the
\* intensities at that voxel, (n*sum(x^2) - sum(x)^2) / n^2, a function of
\* that voxel's intensities alone; for constant 10 and constant 20 it is 25.
C5_PopulationVariance ==
    (CalcVarianceEnded /\ pc = "returned" /\ SameShapes(LoadedImages)) =>
        LET images == LoadedImages
            n == Len(images)
        IN  /\ variance_map.shape = images[1].shape
            /\ DOMAIN variance_map.num = Coords(images[1].shape)
            /\ \A c \in Coords(images[1].shape) :
                  LET xs == [m \in 1..n |-> images[m].vox[c]]
                      S == SumSeq(xs)
                      Q == SumSeq([m \in 1..n |-> xs[m] * xs[m]])
                  IN  /\ variance_map.num[c] * n * n = variance_map.den * (n * Q - S * S)
                      /\ (n = 2 /\ xs = <<10, 20>>) =>
                            variance_map.num[c] = 25 * variance_map.den

C5_Witness ==
    /\ CalcVarianceEnded
    /\ pc = "returned"
    /\ Len(time_points_to_consider) = 2
    /\ LoadedImages = <<ConstVolume(<<2, 1, 1>>, 10), ConstVolume(<<2, 1, 1>>, 20)>>
    /\ \A c \in Coords(<<2, 1, 1>>) : variance_map.num[c] = 25 * variance_map.den
    /\ out_file \in fs

\* C6 (as claimed): when the loaded volumes do not all have one shape,
\* calcVariance raises and leaves no output file.
C6_ShapeMismatchRaises ==
    (CalcVarianceEnded /\ ~SameShapes(LoadedImages)) =>
        (pc = "raised" /\ out_file \notin fs)

-----------------------------------------------------------------------------
(* Properties of the reorganisation *)

\* The last "_"-separated part of a file name before its extension
NameSuffix(name) == RSplitTail(RSplitHead(name, ".", 2), "_").val

HasPve(name) == Contains(name, Chars_pve)

InDir(files, dir) == {p \in files : p.root = subject_id /\ p.dir = dir}

\* The files of the brain directory whose names start with the subject identifier
OwnFiles(files) ==
    {p \in InDir(files, subject_brain_directory) : StartsWith(p.name, subject_id)}

NamePresent(files, name) == \E q \in files : q.name = name

Reorganised == reorg_count' = reorg_count + 1

\* One file of each kind in the brain directory, the target directories empty
OneOfEachKind(files) ==
    LET own == OwnFiles(files)
    IN  /\ Cardinality({p \in own : NameSuffix(p.name) = Chars_restore}) = 1
        /\ Cardinality({p \in own : NameSuffix(p.name) = Chars_bias}) = 1
        /\ Cardinality({p \in own : NameSuffix(p.name) = Chars_mixeltype}) = 1
        /\ Cardinality({p \in own : NameSuffix(p.name) = Chars_seg}) = 1
        /\ Cardinality({p \in own : HasPve(p.name)}) = 1
        /\ InDir(files, subject_bias_directory) = {}
        /\ InDir(files, subject_bias_fields_directory) = {}

MovedAndCounted ==
    /\ \A p \in OwnFiles(fs) :
          /\ NameSuffix(p.name) = Chars_restore =>
                Path(subject_bias_directory, p.name) \in fs'
          /\ NameSuffix(p.name) = Chars_bias =>
                Path(subject_bias_fields_directory, p.name) \in fs'
    /\ OneOfEachKind(fs) =>
          /\ Cardinality(InDir(fs', subject_bias_directory)) = 1
          /\ Cardinality(InDir(fs', subject_bias_fields_directory)) = 1

C8_ReorganisationIdempotent ==
    [][(reorg_count >= 1 /\ Reorganised) => (fs' = fs /\ error' = "none")]_vars

C8_Witness ==
    /\ reorg_count = 2
    /\ error = "none"
    /\ InDir(fs, subject_bias_directory) # {}
    /\ InDir(fs, subject_bias_fields_directory) # {}

-----------------------------------------------------------------------------
(* Properties of the paths *)

\* The part of a file name between the subject identifier and the next "_"
TimePointComponent(name) ==
    LET rest == SubSeq(name, Len(subject_id) + 2, Len(name))
        first == CHOOSE q \in Positions(rest, "_") :
                     \A r \in Positions(rest, "_") : q <= r
    IN  SubSeq(rest, 1, first - 1)

TwoDigits(t) == <<Digit[(t \div 10) + 1], Digit[(t % 10) + 1]>>

\* C9 (as claimed): the path a stage computes for a time point is the same at
\* every computation and its time-point component is the two-digit,
\* zero-padded time point.
C9_TwoDigitTimePoint ==
    \A e \in resolved :
        /\ e \in StagePaths(e.t)
        /\ TimePointComponent(e.path.name) = TwoDigits(e.t)

\* C10 (as claimed): the path at which a stage writes an artifact of a time
\* point is the path from which a stage reads that artifact.
C10_ProducerConsumerAgree ==
    \A w, r \in resolved :
        (w.role = "write" /\ r.role = "read" /\ w.artifact = r.artifact)
            => w.path = r.path

-----------------------------------------------------------------------------
(* Properties of the mask propagation *)

RegistrationTools == {"FLIRT", "FNIRT"}

\* The three strings applyBETMask has a branch for
KnownMethods == {"rigidfsl", "affinefsl", "nonlinearfsl"}

\* Positions of the ApplyMask invocations in the log of the running call
MaskInvocations == {k \in 1..Len(tool_log) : tool_log[k].tool = "ApplyMask"}

\* The applyBETMask call that made the ApplyMask invocation at position k: a
\* call that raises ends the run, so the j-th invocation is of the j-th call
CallOf(k) == mask_calls[Cardinality({j \in MaskInvocations : j <= k})]

\* C11: under each of the three registration methods, the ApplyMask invocation
\* of a call applyBETMask(template, target) comes directly after a completed
\* registration of the target's raw volume onto the template's extracted brain
\* that wrote the target's registered volume; the mask file is the template's
\* mask, the masked input is the registered volume of the target and not its
\* raw volume, and the output is the target's brain-extracted path, which is
\* written unless ApplyMask itself exits abnormally.
C11_RegisterThenMask ==
    registration_method \in KnownMethods =>
        \A k \in MaskInvocations :
            LET e == CallOf(k).extracted_timepoint
                t == CallOf(k).to_extract_timepoint
            IN  /\ k > 1
                /\ tool_log[k - 1].tool \in RegistrationTools
                /\ tool_log[k - 1].in_file = brain_to_extract(t)
                /\ tool_log[k - 1].ref = extracted_brain(e)
                /\ tool_log[k - 1].out_file = registered_whole_brain(t)
                /\ registered_whole_brain(t) \in written
                /\ tool_log[k].ref = mask(e)
                /\ tool_log[k].in_file = registered_whole_brain(t)
                /\ tool_log[k].in_file # brain_to_extract(t)
                /\ tool_log[k].out_file = extracted_brain(t)
                /\ (k < Len(tool_log) \/ pc # "raised") => extracted_brain(t) \in written

C11_Witness ==
    /\ registration_method = "affinefsl"
    /\ ExtractBrainReturned
    /\ Len(mask_calls) = 2
    /\ Cardinality(MaskInvocations) = 2
    /\ \A k \in 1..2 : extracted_brain(time_points_to_consider[k]) \in written

\* C18 (as claimed): whatever the configured method, every ApplyMask
\* invocation masks a volume that a registration of the same call wrote.
C18_MaskOnlyRegistered ==
    \A k \in MaskInvocations :
        /\ k > 1
        /\ tool_log[k - 1].tool \in RegistrationTools
        /\ tool_log[k - 1].out_file = tool_log[k].in_file

\* The stage the running pipeline called last
LastCalled == stage_log[Len(stage_log)][1]

\* Every configured time point the running stage works on has had its tool call
AllTimePointsProcessed ==
    /\ LastCalled = "extractBrain" =>
          \A k \in 1..Len(ExtractBrainTargets) :
              \E j \in 1..Len(mask_calls) :
                  mask_calls[j].to_extract_timepoint = ExtractBrainTargets[k]
    /\ LastCalled = "correctBiasField" =>
          \A k \in 1..Len(time_points_to_consider) :
              \E j \in 1..Len(tool_log) :
                  /\ tool_log[j].tool = "FAST"
                  /\ tool_log[j].in_file = current_brain_loc(time_points_to_consider[k])

\* C12 (as claimed): an abnormal exit of the external tool for one time point
\* in the mask propagation or in the bias correction does not end the run, and
\* the remaining configured time points are still processed.
C12_FailureIsolated ==
    (/\ InPipeline
     /\ error = "ExternalToolFailure"
     /\ LastCalled \in {"extractBrain", "correctBiasField"})
        => (pc # "raised" /\ AllTimePointsProcessed)

-----------------------------------------------------------------------------
(* Independence of the mask-propagation iterations *)

\* The files an invocation reads, and the files it writes
InvReads(inv) ==
    ({inv.in_file, inv.ref} \cup (IF inv.tool = "FNIRT" THEN {inv.mat} ELSE {}))
        \ {NoPath}

InvWrites(inv) ==
    ({inv.out_file} \cup (IF inv.tool = "FLIRT" THEN {inv.mat} ELSE {})) \ {NoPath}

\* The invocations the step made
NewInvocations == SubSeq(tool_log', Len(tool_log) + 1, Len(tool_log'))

\* What the call of the step read that it had not written itself, and what it wrote
CallReads ==
    UNION {InvReads(NewInvocations[k])
              \ UNION {InvWrites(NewInvocations[j]) : j \in 1..(k - 1)} :
           k \in 1..Len(NewInvocations)}

CallWrites ==
    (fs' \ fs) \cup (written' \ written)
        \cup UNION {InvWrites(NewInvocations[k]) : k \in 1..Len(NewInvocations)}

StepTarget == mask_calls'[Len(mask_calls')].to_extract_timepoint

PropagateStepTaken == Len(mask_calls') = Len(mask_calls) + 1

\* An iteration has the same outcome whether or not another one ran before
\* it, and two iterations leave the same files in either order
IterationsCommute ==
    \A a, b \in TargetSet :
        a # b =>
            LET ra == ApplyBETMask(brain_template, a, fs, "none")
                rb == ApplyBETMask(brain_template, b, fs, "none")
                rab == ApplyBETMask(brain_template, b, ra.files, "none")
                rba == ApplyBETMask(brain_template, a, rb.files, "none")
            IN  /\ rab.written = rb.written
                /\ rab.tools = rb.tools
                /\ rab.error = rb.error
                /\ rab.files = rba.files

\* C13 (as claimed): an iteration reads only the raw volume of its target and
\* the brain volume and mask of the template, and writes only the registered
\* and the brain-extracted volume of its target; iterations commute.
C13_AsClaimed ==
    /\ []IterationsCommute
    /\ [][PropagateStepTaken =>
             /\ CallReads \subseteq {brain_to_extract(StepTarget),
                                     extracted_brain(brain_template),
                                     mask(brain_template)}
             /\ CallWrites \subseteq {registered_whole_brain(StepTarget),
                                      extracted_brain(StepTarget)}]_vars

\* C13 (amended): an iteration reads, besides the brain volume and mask of the
\* template, only files of its own target (the raw volume; under the
\* non-linear method the affine transform; when the method matches no branch
\* the registered volume found at the target's path) and writes only files of
\* its own target (the registered volume, the brain-extracted volume and,
\* under the affine method, the transform); iterations commute, so every order
\* of a set of iterations leaves the same files.
C13_IterationsIndependent ==
    /\ []IterationsCommute
    /\ [][PropagateStepTaken =>
             /\ CallReads \subseteq {brain_to_extract(StepTarget),
                                     extracted_brain(brain_template),
                                     mask(brain_template),
                                     affine_file_path(StepTarget),
                                     registered_whole_brain(StepTarget)}
             /\ CallWrites \subseteq {registered_whole_brain(StepTarget),
                                      extracted_brain(StepTarget),
                                      affine_file_path(StepTarget)}]_vars

\* Two iterations have run against the configured order, both to the end
C13_Witness ==
    /\ registration_method = "nonlinearfsl"
    /\ Len(time_points_to_consider) = 3
    /\ Len(mask_calls) = 2
    /\ mask_calls[1].to_extract_timepoint = time_points_to_consider[2]
    /\ mask_calls[2].to_extract_timepoint = time_points_to_consider[1]
    /\ Len(tool_log) = 4
    /\ \A k \in 1..2 : extracted_brain(time_points_to_consider[k]) \in written

-----------------------------------------------------------------------------
(* Isolation of the subjects *)

\* The paths a step creates, deletes, moves from or to, or overwrites
Touched == (fs' \ fs) \cup (fs \ fs') \cup (written' \ written)

\* C14 (as claimed): every path a run of runVariancePipeline creates,
\* overwrites, moves or deletes lies below the root directory of its own
\* subject, so that the runs of two subjects never touch a common path.
C14_SubjectIsolation ==
    [][InPipeline => \A p \in Touched : p.root = subject_id]_vars

-----------------------------------------------------------------------------
(* Properties of the bias correction *)

FASTInvocations == SelectSeq(tool_log, LAMBDA inv : inv.tool = "FAST")

Reorganising == \E p \in written : p.dir \in {subject_bias_directory,
                                               subject_bias_fields_directory}

\* C15 (as claimed): correctBiasField runs FAST once for each configured time
\* point in turn, the template included, on the brain-extracted volume of that
\* time point, with 5 classes, 5 bias iterations and both outputs asked for;
\* when it returns FAST has run for every configured time point, and no file
\* is moved before that.
C15_FASTOncePerTimePoint ==
    LET n == Len(time_points_to_consider)
    IN  /\ Len(FASTInvocations) <= n
        /\ \A k \in 1..Len(FASTInvocations) :
              /\ FASTInvocations[k].in_file = extracted_brain(time_points_to_consider[k])
              /\ FASTInvocations[k].number_classes = 5
              /\ FASTInvocations[k].bias_iters = 5
              /\ FASTInvocations[k].output_biascorrected
              /\ FASTInvocations[k].output_biasfield
        /\ (pc = "correctBiasField" /\ idx <= n) =>
              /\ Len(FASTInvocations) = idx - 1
              /\ current_brain_loc(time_points_to_consider[idx])
                    = extracted_brain(time_points_to_consider[idx])
        /\ Reorganising => Len(FASTInvocations) = n
        /\ Occurs(Return("correctBiasField"), stage_log) => Len(FASTInvocations) = n

-----------------------------------------------------------------------------
(* Properties of the intensity normalisation *)

StepsOf(op) == {k \in 1..Len(norm_steps) : norm_steps[k].op = op}

\* C16: when intensityNormalisation has got past loading its inputs, the model
\* was fitted once, over the bias-corrected volumes of all configured time
\* points, before it was applied to any volume; the standard histogram was
\* saved once, at its path in the normalised directory; for each position i of
\* the configured list there is one application to the i-th input and one
\* saved volume, the i-th normalised one at the path of the i-th time point;
\* and every reorientation is of a volume saved earlier.
C16_FitOnceSaveThenReorient ==
    norm_steps # <<>> =>
        LET n == Len(time_points_to_consider)
        IN  /\ Cardinality(StepsOf("fit")) = 1
            /\ \A f \in StepsOf("fit") :
                  /\ norm_steps[f].inputs =
                        [i \in 1..n |-> normalisation_image_path(time_points_to_consider[i])]
                  /\ \A a \in StepsOf("apply") : f < a
            /\ Cardinality(StepsOf("save_standard_histogram")) = 1
            /\ \A h \in StepsOf("save_standard_histogram") :
                  norm_steps[h].out = standard_histogram
            /\ standard_histogram \in fs
            /\ Cardinality(StepsOf("save")) = n
            /\ \A i \in 1..n :
                  /\ \E a \in StepsOf("apply") :
                        /\ norm_steps[a].index = i
                        /\ norm_steps[a].inputs =
                              <<normalisation_image_path(time_points_to_consider[i])>>
                  /\ Cardinality({v \in StepsOf("save") : norm_steps[v].index = i}) = 1
                  /\ \A v \in StepsOf("save") :
                        norm_steps[v].index = i =>
                            /\ norm_steps[v].out = normalised_file(time_points_to_consider[i])
                            /\ norm_steps[v].out \in written
                            /\ data[norm_steps[v].out] = scans[time_points_to_consider[i]]
            /\ \A r \in StepsOf("reorient") :
                  \E v \in StepsOf("save") :
                      v < r /\ norm_steps[v].out = norm_steps[r].out

C16_Witness ==
    /\ Occurs(Return("intensityNormalisation"), stage_log)
    /\ time_points_to_consider = <<1, 2, 3>>
    /\ Cardinality(StepsOf("save")) = 3
    /\ Cardinality(StepsOf("reorient")) = 3
    /\ scans[1] # scans[2]

-----------------------------------------------------------------------------
(* Absent inputs *)

InputAbsent(path(_)) ==
    \E k \in 1..Len(time_points_to_consider) : path(time_points_to_consider[k]) \notin fs

RaisesAndWritesNothing ==
    /\ pc' = "raised"
    /\ error' = "ArtifactNotFound"
    /\ fs' = fs
    /\ data' = data
    /\ written' = {}
    /\ variance_map' = variance_map
    /\ norm_steps' = <<>>

\* C17: intensityNormalisation begun while the bias-corrected volume of some
\* configured time point is absent, and calcVariance begun while the
\* normalised volume of some configured time point is absent, raise
\* ArtifactNotFound and create or overwrite no file: no normalised volume, no
\* standard histogram, no variance map.
C17_AbsentInputWritesNothing ==
    [][/\ (pc = "intensityNormalisation" /\ InputAbsent(normalisation_image_path))
            => RaisesAndWritesNothing
       /\ (pc = "calcVariance" /\ InputAbsent(variance_image_path))
            => RaisesAndWritesNothing]_vars

\* intensityNormalisation has raised: one input is there, the next is not, and
\* the normalised volumes of an earlier run are as they were
C17_Witness ==
    /\ pc = "raised"
    /\ error = "ArtifactNotFound"
    /\ run = 1
    /\ Len(time_points_to_consider) = 2
    /\ normalisation_image_path(1) \in fs
    /\ normalisation_image_path(2) \notin fs
    /\ {normalised_file(1), normalised_file(2)} \subseteq fs
    /\ standard_histogram \notin fs
    /\ written = {}

-----------------------------------------------------------------------------
(* What the reorganisation leaves alone *)

\* A name of the form {subjectId}_{tt}_D1.nii.gz
IsBrainVolumeName(name) ==
    \E t \in 1..99 : name = FormatName(subject_id, TwoDigits(t), Chars_nii \o Chars_gz)

\* C19 (as claimed): a reorganisation neither moves nor deletes a
\* brain-extracted volume of the brain directory or a file there whose name
\* does not start with the subject identifier, whatever the identifier, and
\* leaves the masks subdirectory as it was.
C19_LeavesOthersUntouched ==
    [][Reorganised =>
          /\ \A p \in InDir(fs, subject_brain_directory) :
                (IsBrainVolumeName(p.name) \/ ~StartsWith(p.name, subject_id))
                    => p \in fs'
          /\ {p \in fs' : p.dir = subject_brain_mask_directory}
                = {p \in fs : p.dir = subject_brain_mask_directory}]_vars

-----------------------------------------------------------------------------
(* Properties of the conversion *)

sidecar(t) == Path(json_directory, FormatName(subject_id, TwoDigits(t), Chars_json))

\* The raw volumes on disk and the time points they were converted from
RawVolumes(org) ==
    {p \in DOMAIN org : /\ p.dir = subject_nifti_directory
                         /\ \E t \in 1..MaxTotal : p = brain_to_extract(t)}

\* C20 (as claimed): when convertDICOMtoNIFTI has returned, the raw volume and
\* the sidecar at index t are the conversion of time point t, for every t up
\* to total_num_time_points; dcm2niix is run only for a time point whose raw
\* volume is absent; and the rename pass leaves every raw volume that was
\* there with the conversion it held.
C20_ConvertedInOrder ==
    /\ [](pc = "returned" =>
             \A t \in 1..total_num_time_points :
                 /\ brain_to_extract(t) \in DOMAIN origin
                 /\ origin[brain_to_extract(t)] = t
                 /\ sidecar(t) \in DOMAIN origin
                 /\ origin[sidecar(t)] = t)
    /\ [][/\ (Len(tool_log') > Len(tool_log) /\ pc = "convertDICOMtoNIFTI")
                => (brain_to_extract(idx) \notin fs)
          /\ (pc = "convertDICOMtoNIFTI" /\ idx > total_num_time_points)
                => (\A p \in RawVolumes(origin) :
                       p \in DOMAIN origin' /\ origin'[p] = origin[p])]_vars

=============================================================================
